---- MODULE Spec2Model ----
(***************************************************************************)
(* Model of src/app.py: the pitch-to-tablature pipeline generate_tabs and  *)
(* the /process request handler that drives it.                            *)
(*                                                                         *)
(* Numbers.  Semitone values are real numbers in the program.  The model   *)
(* keeps them on a quarter-semitone grid: a semitone value v is held as    *)
(* the integer 4*v.  A frequency f > 0 is held by its position q on the    *)
(* matching logarithmic grid, f = 440 * 2^(q/48), so that                  *)
(* 12*log2(f/440) + 69 is 69 + q/4, that is 276 + q on the grid.           *)
(* Text is a sequence of one-character strings.                            *)
(***************************************************************************)
EXTENDS Integers, Sequences, FiniteSets, TLC

VARIABLES
    pc,               \* position of the request handler / generate_tabs
    req_name,         \* file.filename of the request (a text)
    uploads,          \* names of the files present in UPLOAD_FOLDER
    f0,               \* per-frame frequency estimate (librosa.pyin)
    voiced_flag,      \* per-frame voiced flag (librosa.pyin)
    midi_notes,       \* hz_to_midi(f0)
    processed_notes,  \* the decimated semitone values
    tab_lines,        \* string name -> list of symbols
    k,                \* number of processed notes already assigned
    i,                \* start index of the next block (chunking loop)
    final_output,     \* list of texts built by the chunking loop
    tabs_text,        \* value returned by generate_tabs
    response,         \* HTTP status answered by process(), 0 = none yet
    m_pc,             \* position of the stand-alone mapper evaluation
    m_note,           \* its semitone value
    m_tuning,         \* its tuning (dict items in declaration order)
    m_result          \* its selected string and fret

vars == <<pc, req_name, uploads, f0, voiced_flag, midi_notes, processed_notes,
          tab_lines, k, i, final_output, tabs_text, response,
          m_pc, m_note, m_tuning, m_result>>

gen_vars == <<f0, voiced_flag, midi_notes, processed_notes, tab_lines, k, i,
              final_output, tabs_text>>

map_vars == <<m_pc, m_note, m_tuning, m_result>>

----------------------------------------------------------------------------
(* Bounds of the model *)

\* Short recordings have 0 .. MaxShort frames.
MaxShort == 11

\* Long recordings have step*chunk_size + (0 .. MaxExtra) frames.
MaxExtra == 1

\* The frames of a recording repeat a pattern of 1 .. MaxPeriod frames.
MaxPeriod == 2

\* Semitone values given to the stand-alone mapper: MinNote .. MaxNote.
MinNote == 36
MaxNote == 92

----------------------------------------------------------------------------
(* Program constants *)

step == 5

chunk_size == 60

MAX_FRET == 24

MIN_FRET_INIT == 100

ALLOWED_EXTENSIONS == { <<"m","p","3">>, <<"w","a","v">>, <<"o","g","g">>,
                        <<"f","l","a","c">> }

\* guitar_tuning.items(), in the dict's declaration order
guitar_tuning == << <<"e", 64>>, <<"B", 59>>, <<"G", 55>>,
                    <<"D", 50>>, <<"A", 45>>, <<"E", 40>> >>

\* the explicit display order of the chunking loop
display_order == <<"e", "B", "G", "D", "A", "E">>

None == "None"

----------------------------------------------------------------------------
(* Values *)

NaN == [nan |-> TRUE, q |-> 0]

Num(q) == [nan |-> FALSE, q |-> q]

\* Frequencies: not-a-number, zero, or +/- 440 * 2^(q/48)
FNaN == [kind |-> "nan", q |-> 0]
FZero == [kind |-> "zero", q |-> 0]
FPos(q) == [kind |-> "pos", q |-> q]
FNeg(q) == [kind |-> "neg", q |-> q]

Min(a, b) == IF a < b THEN a ELSE b

----------------------------------------------------------------------------
(* Text helpers: Python str(int), str.join, str.lower, str.rsplit *)

Digit == <<"0", "1", "2", "3", "4", "5", "6", "7", "8", "9">>

RECURSIVE StrNat(_)
StrNat(n) ==
    IF n < 10 THEN <<Digit[n + 1]>>
    ELSE StrNat(n \div 10) \o <<Digit[(n % 10) + 1]>>

\* str(n) of a Python int
Str(n) == IF n < 0 THEN <<"-">> \o StrNat(-n) ELSE StrNat(n)

\* sep.join(list) for a list of texts
RECURSIVE Join(_, _)
Join(list, sep) ==
    IF Len(list) = 0 THEN <<>>
    ELSE IF Len(list) = 1 THEN list[1]
    ELSE list[1] \o sep \o Join(Tail(list), sep)

UpperLetters == <<"A", "B", "C", "D", "E", "F", "G", "H", "I", "J", "K", "L", "M",
                  "N", "O", "P", "Q", "R", "S", "T", "U", "V", "W", "X", "Y", "Z">>

LowerLetters == <<"a", "b", "c", "d", "e", "f", "g", "h", "i", "j", "k", "l", "m",
                  "n", "o", "p", "q", "r", "s", "t", "u", "v", "w", "x", "y", "z">>

LowerChar(c) ==
    IF \E n \in 1..Len(UpperLetters) : UpperLetters[n] = c
    THEN LowerLetters[CHOOSE n \in 1..Len(UpperLetters) : UpperLetters[n] = c]
    ELSE c

Lower(s) == [n \in 1..Len(s) |-> LowerChar(s[n])]

\* filename.rsplit('.', 1)[1], for a filename that holds a '.'
RSplitExt(s) ==
    LET last == CHOOSE n \in 1..Len(s) :
                    /\ s[n] = "."
                    /\ \A n2 \in (n + 1)..Len(s) : s[n2] # "."
    IN  SubSeq(s, last + 1, Len(s))

allowed_file(filename) ==
    /\ \E n \in 1..Len(filename) : filename[n] = "."
    /\ Lower(RSplitExt(filename)) \in ALLOWED_EXTENSIONS

----------------------------------------------------------------------------
(* Pitch Normalizer *)

\* variant: the unvoiced frames are not overwritten
MaskUnvoiced_skipped(freqs, flags) == freqs

\* f0[~voiced_flag] = np.nan
MaskUnvoiced(freqs, flags) ==
    [n \in 1..Len(freqs) |-> IF ~flags[n] THEN FNaN ELSE freqs[n]]

\* np.where(frequencies == 0, np.nan, frequencies), one element
WhereZero(f) == IF f.kind = "zero" THEN FNaN ELSE f

\* 12 * np.log2(f / 440.0) + 69, one element: NaN stays NaN, the logarithm
\* of a negative number is NaN, a positive frequency lands on the grid
Log2Midi(f) == IF f.kind = "pos" THEN Num(276 + f.q) ELSE NaN

hz_to_midi(frequencies) ==
    [n \in 1..Len(frequencies) |-> Log2Midi(WhereZero(frequencies[n]))]

----------------------------------------------------------------------------
(* Fretboard Mapper *)

\* variant: a half is rounded up instead of to the even integer
py_round_half_up(x4) == (x4 + 2) \div 4

\* round(x) of a float x = x4/4: nearest integer, a half goes to the even one
py_round(x4) ==
    LET lo == x4 \div 4
        r  == x4 % 4
    IN  IF r < 2 THEN lo
        ELSE IF r > 2 THEN lo + 1
        ELSE IF lo % 2 = 0 THEN lo ELSE lo + 1

\* variant: the upper fret bound is not tested
midi_to_fret_no_upper(midi_note, string_tune) ==
    LET fret == py_round(midi_note - 4 * string_tune)
    IN  IF 0 <= fret THEN fret ELSE -1

\* midi_note is on the quarter-semitone grid, string_tune in semitones
midi_to_fret(midi_note, string_tune) ==
    LET fret == py_round(midi_note - 4 * string_tune)
    IN  IF 0 <= fret /\ fret <= MAX_FRET THEN fret ELSE -1

\* variant: min_fret starts at 0 instead of 100
NoSelection_zero == [best_string |-> None, min_fret |-> 0]

NoSelection == [best_string |-> None, min_fret |-> MIN_FRET_INIT]

\* variant: an equal fret replaces the string found so far
SelectStep_keep_last(acc, note, item) ==
    LET fret == midi_to_fret(note, item[2])
    IN  IF fret # -1 /\ fret <= acc.min_fret
        THEN [best_string |-> item[1], min_fret |-> fret]
        ELSE acc

\* one iteration of "for string_name, string_pitch in guitar_tuning.items()"
SelectStep(acc, note, item) ==
    LET fret == midi_to_fret(note, item[2])
    IN  IF fret # -1 /\ fret < acc.min_fret
        THEN [best_string |-> item[1], min_fret |-> fret]
        ELSE acc

RECURSIVE SelectLoop(_, _, _, _)
SelectLoop(acc, note, tuning, n) ==
    IF n > Len(tuning) THEN acc
    ELSE SelectLoop(SelectStep(acc, note, tuning[n]), note, tuning, n + 1)

\* the selection loop of generate_tabs for one voiced note
SelectString(note, tuning) == SelectLoop(NoSelection, note, tuning, 1)

TuningKeys(tuning) == {tuning[n][1] : n \in 1..Len(tuning)}

\* "for string in tab_lines: ... append" for a silent frame
AppendSilence(lines) == [s \in DOMAIN lines |-> Append(lines[s], <<"-">>)]

\* variant: the strings that were not selected get no placeholder
AppendSelection_no_else(lines, sel) ==
    [s \in DOMAIN lines |->
        IF s = sel.best_string THEN Append(lines[s], Str(sel.min_fret))
        ELSE lines[s]]

\* "for string in tab_lines: ... append" for a voiced frame
AppendSelection(lines, sel) ==
    [s \in DOMAIN lines |->
        IF s = sel.best_string THEN Append(lines[s], Str(sel.min_fret))
        ELSE Append(lines[s], <<"-">>)]

\* body of "for note in processed_notes"
AssignNote(lines, note) ==
    IF note.nan THEN AppendSilence(lines)
    ELSE AppendSelection(lines, SelectString(note.q, guitar_tuning))

----------------------------------------------------------------------------
(* Tab Renderer *)

\* seq[start-1 :: step]: the elements at 0-based positions start-1, start-1+step, ...
RECURSIVE SliceFrom(_, _)
SliceFrom(s, start) ==
    IF start > Len(s) THEN <<>>
    ELSE <<s[start]>> \o SliceFrom(s, start + step)

\* variant: the slice starts at the second frame
Decimate_from_second(s) == SliceFrom(s, 2)

\* midi_notes[::step]
Decimate(s) == SliceFrom(s, 1)

\* variant: the slice loses its last element
PySlice_short(s, a, b) == SubSeq(s, a + 1, Min(b - 1, Len(s)))

\* lst[a:b] of Python, a and b 0-based
PySlice(s, a, b) == SubSeq(s, a + 1, Min(b, Len(s)))

\* f"{string_name}|{line_str}|" for one string of the block starting at a
BlockLine(lines, name, a) ==
    <<name, "|">> \o Join(PySlice(lines[name], a, a + chunk_size), <<>>) \o <<"|">>

\* "\n".join(block)
BlockText(lines, a) ==
    Join([n \in 1..Len(display_order) |-> BlockLine(lines, display_order[n], a)],
         <<"\n">>)

\* the two appends of one iteration of the chunking loop
AppendBlock(out, lines, a) == out \o <<BlockText(lines, a), <<"\n">>>>

\* "\n".join(final_output)
FinalText(out) == Join(out, <<"\n">>)

----------------------------------------------------------------------------
(* Inputs *)

\* What the pitch estimator can report for one frame: a frequency and a flag.
\* The estimator is an external collaborator: the model does not assume that
\* it reports NaN for every unvoiced frame or stays within fmin .. fmax.
\* 276 + q is the semitone value on the quarter grid: q = 0 is 440 Hz (69),
\* 78 is 88.5, 104 is 95 (above fret 24 everywhere), -119 is 39.25 (below
\* every open string).
FrameVals ==
    { [f |-> FPos(0),    v |-> TRUE],
      [f |-> FPos(78),   v |-> TRUE],
      [f |-> FPos(104),  v |-> TRUE],
      [f |-> FPos(-119), v |-> TRUE],
      [f |-> FZero,      v |-> TRUE],
      [f |-> FNeg(0),    v |-> TRUE],
      [f |-> FNaN,       v |-> FALSE],
      [f |-> FPos(0),    v |-> FALSE] }

Patterns == UNION { [1..n -> FrameVals] : n \in 1..MaxPeriod }

Lengths == (0..MaxShort) \cup { step * chunk_size + x : x \in 0..MaxExtra }

\* the recording of n frames that repeats pattern p
Recording(p, n) == [j \in 1..n |-> p[((j - 1) % Len(p)) + 1]]

\* request.files carries a file or not; file.filename
Requests ==
    { [has_file |-> FALSE, filename |-> <<>>],
      [has_file |-> TRUE,  filename |-> <<>>],
      [has_file |-> TRUE,  filename |-> <<"a", ".", "M", "p", "3">>],
      [has_file |-> TRUE,  filename |-> <<"a", ".", "t", "x", "t">>],
      [has_file |-> TRUE,  filename |-> <<"w", "a", "v">>] }

EmptyLines == [s \in TuningKeys(guitar_tuning) |-> <<>>]

\* open pitches: the standard ones, and a set with strings in unison
PitchMaps ==
    { [e |-> 64, B |-> 59, G |-> 55, D |-> 50, A |-> 45, E |-> 40],
      [e |-> 64, B |-> 64, G |-> 55, D |-> 55, A |-> 40, E |-> 40] }

Orders ==
    { o \in [1..Len(display_order) -> TuningKeys(guitar_tuning)] :
          \A a, b \in 1..Len(display_order) : a # b => o[a] # o[b] }

\* every declaration order of the six strings, under each pitch map
Tunings ==
    { [n \in 1..Len(display_order) |-> <<o[n], pm[o[n]]>>] :
          o \in Orders, pm \in PitchMaps }

----------------------------------------------------------------------------
(* The request handler process() and generate_tabs *)

GenInit ==
    /\ f0 = <<>>
    /\ voiced_flag = <<>>
    /\ midi_notes = <<>>
    /\ processed_notes = <<>>
    /\ tab_lines = EmptyLines
    /\ k = 0
    /\ i = 0
    /\ final_output = <<>>
    /\ tabs_text = <<>>

MapOff ==
    /\ m_pc = "off"
    /\ m_note = 0
    /\ m_tuning = guitar_tuning
    /\ m_result = NoSelection

Init ==
    /\ pc = "idle"
    /\ req_name = <<>>
    /\ uploads = {}
    /\ response = 0
    /\ GenInit
    /\ MapOff

\* process(): the checks on the request and file.save
Receive ==
    /\ pc = "idle"
    /\ \E req \in Requests :
          /\ req_name' = req.filename
          /\ IF ~req.has_file \/ req.filename = <<>>
             THEN /\ response' = 302
                  /\ pc' = "responded"
                  /\ UNCHANGED uploads
             ELSE IF allowed_file(req.filename)
             THEN /\ uploads' = uploads \cup {req.filename}
                  /\ pc' = "analyse"
                  /\ UNCHANGED response
             ELSE /\ response' = 400
                  /\ pc' = "responded"
                  /\ UNCHANGED uploads
    /\ UNCHANGED gen_vars
    /\ UNCHANGED map_vars

\* librosa.load and librosa.pyin deliver the frames of the recording
Analyse ==
    /\ pc = "analyse"
    /\ \E p \in Patterns, n \in Lengths :
          LET rec == Recording(p, n)
          IN  /\ f0' = [j \in 1..n |-> rec[j].f]
              /\ voiced_flag' = [j \in 1..n |-> rec[j].v]
    /\ pc' = "mask"
    /\ UNCHANGED <<req_name, uploads, response, midi_notes, processed_notes,
                   tab_lines, k, i, final_output, tabs_text>>
    /\ UNCHANGED map_vars

\* librosa.load or librosa.pyin raises (a broken file): except -> 500
AnalyseRaises ==
    /\ pc = "analyse"
    /\ response' = 500
    /\ pc' = "responded"
    /\ UNCHANGED <<req_name, uploads>>
    /\ UNCHANGED gen_vars
    /\ UNCHANGED map_vars

MaskStep ==
    /\ pc = "mask"
    /\ f0' = MaskUnvoiced(f0, voiced_flag)
    /\ pc' = "midi"
    /\ UNCHANGED <<req_name, uploads, response, voiced_flag, midi_notes,
                   processed_notes, tab_lines, k, i, final_output, tabs_text>>
    /\ UNCHANGED map_vars

MidiStep ==
    /\ pc = "midi"
    /\ midi_notes' = hz_to_midi(f0)
    /\ pc' = "decimate"
    /\ UNCHANGED <<req_name, uploads, response, f0, voiced_flag,
                   processed_notes, tab_lines, k, i, final_output, tabs_text>>
    /\ UNCHANGED map_vars

\* tab_lines = {k: [] ...}; processed_notes = midi_notes[::step]
DecimateStep ==
    /\ pc = "decimate"
    /\ tab_lines' = EmptyLines
    /\ processed_notes' = Decimate(midi_notes)
    /\ k' = 0
    /\ pc' = "assign"
    /\ UNCHANGED <<req_name, uploads, response, f0, voiced_flag, midi_notes,
                   i, final_output, tabs_text>>
    /\ UNCHANGED map_vars

\* one iteration of "for note in processed_notes"
AssignStep ==
    /\ pc = "assign"
    /\ k < Len(processed_notes)
    /\ tab_lines' = AssignNote(tab_lines, processed_notes[k + 1])
    /\ k' = k + 1
    /\ UNCHANGED <<pc, req_name, uploads, response, f0, voiced_flag, midi_notes,
                   processed_notes, i, final_output, tabs_text>>
    /\ UNCHANGED map_vars

\* the assignment loop ends; final_output = [], the chunking loop starts at 0
AssignDone ==
    /\ pc = "assign"
    /\ k = Len(processed_notes)
    /\ final_output' = <<>>
    /\ i' = 0
    /\ pc' = "chunk"
    /\ UNCHANGED <<req_name, uploads, response, f0, voiced_flag, midi_notes,
                   processed_notes, tab_lines, k, tabs_text>>
    /\ UNCHANGED map_vars

\* one iteration of "for i in range(0, total_length, chunk_size)"
ChunkStep ==
    /\ pc = "chunk"
    /\ i < Len(tab_lines["E"])
    /\ final_output' = AppendBlock(final_output, tab_lines, i)
    /\ i' = i + chunk_size
    /\ UNCHANGED <<pc, req_name, uploads, response, f0, voiced_flag, midi_notes,
                   processed_notes, tab_lines, k, tabs_text>>
    /\ UNCHANGED map_vars

\* return "\n".join(final_output)
ReturnText ==
    /\ pc = "chunk"
    /\ i >= Len(tab_lines["E"])
    /\ tabs_text' = FinalText(final_output)
    /\ pc' = "remove"
    /\ UNCHANGED <<req_name, uploads, response, f0, voiced_flag, midi_notes,
                   processed_notes, tab_lines, k, i, final_output>>
    /\ UNCHANGED map_vars

\* os.remove(filepath)
RemoveFile ==
    /\ pc = "remove"
    /\ uploads' = uploads \ {req_name}
    /\ pc' = "template"
    /\ UNCHANGED <<req_name, response>>
    /\ UNCHANGED gen_vars
    /\ UNCHANGED map_vars

\* return render_template('result.html', ...)
RenderResult ==
    /\ pc = "template"
    /\ response' = 200
    /\ pc' = "responded"
    /\ UNCHANGED <<req_name, uploads>>
    /\ UNCHANGED gen_vars
    /\ UNCHANGED map_vars

\* render_template raises: except -> 500
RenderRaises ==
    /\ pc = "template"
    /\ response' = 500
    /\ pc' = "responded"
    /\ UNCHANGED <<req_name, uploads>>
    /\ UNCHANGED gen_vars
    /\ UNCHANGED map_vars

Next ==
    \/ Receive
    \/ Analyse
    \/ AnalyseRaises
    \/ MaskStep
    \/ MidiStep
    \/ DecimateStep
    \/ AssignStep
    \/ AssignDone
    \/ ChunkStep
    \/ ReturnText
    \/ RemoveFile
    \/ RenderResult
    \/ RenderRaises

Spec == Init /\ [][Next]_vars

----------------------------------------------------------------------------
(* The selection loop on its own, over semitone values and tunings *)

MapInit ==
    /\ pc = "off"
    /\ req_name = <<>>
    /\ uploads = {}
    /\ response = 0
    /\ GenInit
    /\ m_pc = "input"
    /\ m_note \in (4 * MinNote)..(4 * MaxNote)
    /\ m_tuning \in Tunings
    /\ m_result = NoSelection

MapSelect ==
    /\ m_pc = "input"
    /\ m_result' = SelectString(m_note, m_tuning)
    /\ m_pc' = "output"
    /\ UNCHANGED <<m_note, m_tuning>>
    /\ UNCHANGED <<pc, req_name, uploads, response>>
    /\ UNCHANGED gen_vars

MapNext == MapSelect

SpecMap == MapInit /\ [][MapNext]_vars

----------------------------------------------------------------------------
(* Vocabulary of the properties *)

Placeholder == <<"-">>

IsDigit(c) == \E d \in 1..Len(Digit) : Digit[d] = c

DigitValue(c) == (CHOOSE d \in 1..Len(Digit) : Digit[d] = c) - 1

RECURSIVE ParseNat(_)
ParseNat(t) ==
    IF Len(t) = 1 THEN DigitValue(t[1])
    ELSE 10 * ParseNat(SubSeq(t, 1, Len(t) - 1)) + DigitValue(t[Len(t)])

\* t is the decimal form of an integer in lo .. hi
IsDecimalIn(t, lo, hi) ==
    /\ Len(t) >= 1
    /\ \A n \in 1..Len(t) : IsDigit(t[n])
    /\ Len(t) > 1 => t[1] # "0"
    /\ ParseNat(t) >= lo
    /\ ParseNat(t) <= hi

\* concatenation of a list of texts
RECURSIVE Flat(_)
Flat(list) == IF Len(list) = 0 THEN <<>> ELSE Head(list) \o Flat(Tail(list))

\* the lines of a text, split at its newline characters
RECURSIVE SplitLines(_)
SplitLines(t) ==
    IF \A n \in 1..Len(t) : t[n] # "\n" THEN <<t>>
    ELSE LET nl == CHOOSE n \in 1..Len(t) :
                       /\ t[n] = "\n"
                       /\ \A n2 \in 1..(n - 1) : t[n2] # "\n"
         IN  <<SubSeq(t, 1, nl - 1)>> \o SplitLines(SubSeq(t, nl + 1, Len(t)))

\* the strings that carry something else than the placeholder in column n
Fretted(n) == {s \in DOMAIN tab_lines : tab_lines[s][n] # Placeholder}

\* the rounded fret of semitone value note (quarter grid) on an open pitch
RoundedFret(note, pitch) == py_round(note - 4 * pitch)

\* the positions of tuning whose rounded fret on note lies in 0 .. 24
Playable(note, tuning) ==
    {n \in 1..Len(tuning) :
        RoundedFret(note, tuning[n][2]) >= 0 /\ RoundedFret(note, tuning[n][2]) <= 24}

\* the 1-based frame behind the n-th kept sample
FrameOf(n) == (n - 1) * 5 + 1

\* generate_tabs has returned its text
Returned == pc \in {"remove", "template"}

----------------------------------------------------------------------------
(* C1: every symbol written into a string line is the placeholder or the   *)
(* decimal form of a fret in 0 .. 24, and the lines are those of the six   *)
(* strings of the tuning; 100 and -1 are never rendered.                   *)
C1_FretsInRange ==
    /\ DOMAIN tab_lines = {"e", "B", "G", "D", "A", "E"}
    /\ \A s \in DOMAIN tab_lines :
          \A n \in 1..Len(tab_lines[s]) :
              \/ tab_lines[s][n] = Placeholder
              \/ IsDecimalIn(tab_lines[s][n], 0, 24)

\* a fret of two digits (24 on string e) and a one-digit fret were written
C1_Witness ==
    /\ Returned
    /\ \E n \in 1..Len(tab_lines["e"]) : tab_lines["e"][n] = <<"2", "4">>
    /\ \E n \in 1..Len(tab_lines["e"]) : tab_lines["e"][n] = <<"5">>

(* C2: the selection loop picks the smallest valid fret, the earliest      *)
(* declared string among equals; 69 under the standard tuning is e fret 5. *)
C2_MinimalFretEarliest ==
    m_pc = "output" =>
        LET ok == Playable(m_note, m_tuning)
            fr(n) == RoundedFret(m_note, m_tuning[n][2])
        IN  /\ ok = {} => m_result.best_string = None
            /\ ok # {} =>
                 \E n \in ok :
                    /\ m_result.best_string = m_tuning[n][1]
                    /\ m_result.min_fret = fr(n)
                    /\ \A n2 \in ok : fr(n) <= fr(n2)
                    /\ \A n2 \in ok : fr(n2) = fr(n) => n <= n2
            /\ (m_tuning = guitar_tuning /\ m_note = 4 * 69) =>
                 (m_result.best_string = "e" /\ m_result.min_fret = 5)

\* two strings share the smallest fret and the earlier one was chosen
C2_Witness ==
    /\ m_pc = "output"
    /\ \E a, b \in Playable(m_note, m_tuning) :
          /\ a < b
          /\ RoundedFret(m_note, m_tuning[a][2]) = m_result.min_fret
          /\ RoundedFret(m_note, m_tuning[b][2]) = m_result.min_fret
          /\ m_result.best_string = m_tuning[a][1]

(* C3: a kept frame that is flagged unvoiced, or whose frequency is <= 0,  *)
(* gets the placeholder on all six lines; an all-unvoiced recording        *)
(* renders without any digit.                                              *)
C3_SilentFrames ==
    /\ \A n \in 1..k :
          (\/ ~voiced_flag[FrameOf(n)]
           \/ f0[FrameOf(n)].kind \in {"zero", "neg"})
          => \A s \in {"e", "B", "G", "D", "A", "E"} : tab_lines[s][n] = Placeholder
    /\ (Returned /\ \A j \in 1..Len(voiced_flag) : ~voiced_flag[j])
          => \A n \in 1..Len(tabs_text) : ~IsDigit(tabs_text[n])

\* a voiced frame of frequency <= 0 and an unvoiced frame were both kept
C3_Witness ==
    /\ Returned
    /\ k >= 2
    /\ voiced_flag[FrameOf(1)] /\ f0[FrameOf(1)].kind \in {"zero", "neg"}
    /\ ~voiced_flag[FrameOf(2)]
    /\ Fretted(1) = {} /\ Fretted(2) = {}

(* C4: a voiced semitone value is rendered silent exactly when no string   *)
(* gives a rounded fret in 0 .. 24; otherwise exactly one string carries a *)
(* fret number.                                                            *)
C4_SilentIffUnplayable ==
    \A n \in 1..k :
        ~processed_notes[n].nan =>
            LET ok == Playable(processed_notes[n].q, guitar_tuning)
            IN  /\ Fretted(n) = {} <=> ok = {}
                /\ ok # {} => Cardinality(Fretted(n)) = 1

\* a value too high for every string and a playable value were both kept
C4_Witness ==
    /\ Returned
    /\ \E n \in 1..k :
          /\ ~processed_notes[n].nan
          /\ processed_notes[n].q > 4 * (64 + 24) + 2
          /\ Fretted(n) = {}
    /\ \E n \in 1..k :
          /\ ~processed_notes[n].nan
          /\ Cardinality(Fretted(n)) = 1

C6_Blocks ==
    Returned =>
        LET M == Len(processed_notes)
            B == Len(final_output) \div 2
        IN  /\ Len(final_output) = 2 * B
            /\ 60 * B >= M
            /\ 60 * (B - 1) < M
            /\ \A b \in 1..B :
                  LET first == 60 * (b - 1) + 1
                      last  == IF b < B THEN 60 * b ELSE M
                      ls    == SplitLines(final_output[2 * b - 1])
                  IN  /\ Len(ls) = 6
                      /\ \A n \in 1..6 :
                            LET name == <<"e", "B", "G", "D", "A", "E">>[n]
                            IN  ls[n] = <<name, "|">>
                                        \o Flat(SubSeq(tab_lines[name], first, last))
                                        \o <<"|">>

\* 61 kept samples: two blocks, the second with one symbol per line
C6_Witness ==
    /\ Returned
    /\ Len(processed_notes) = 61
    /\ Len(final_output) = 4
    /\ SplitLines(final_output[3])[1] = <<"e", "|">> \o tab_lines["e"][61] \o <<"|">>
    /\ SplitLines(final_output[3])[6] = <<"E", "|">> \o tab_lines["E"][61] \o <<"|">>

(* C7: in the returned text the last line "E|...|" of a block and the      *)
(* first line "e|...|" of the next block are separated by one empty line.  *)
C7_OneBlankLine ==
    Returned =>
        LET ls == SplitLines(tabs_text)
        IN  \A n \in 1..Len(ls) :
                (/\ Len(ls[n]) > 0
                 /\ ls[n][1] = "E"
                 /\ \E n2 \in (n + 1)..Len(ls) : Len(ls[n2]) > 0)
                => /\ ls[n + 1] = <<>>
                   /\ Len(ls[n + 2]) > 0
                   /\ ls[n + 2][1] = "e"

(* C8: after k kept samples each of the six lines holds k symbols, at most *)
(* one line holds a fret in each column, and once the pass is over every   *)
(* line holds one symbol per kept sample.                                  *)
C8_LoopInvariant ==
    /\ Cardinality(DOMAIN tab_lines) = 6
    /\ \A s \in DOMAIN tab_lines : Len(tab_lines[s]) = k
    /\ \A n \in 1..k : Cardinality(Fretted(n)) <= 1
    /\ pc \in {"chunk", "remove", "template"} =>
          \A s \in DOMAIN tab_lines : Len(tab_lines[s]) = Len(processed_notes)

\* in the middle of the pass, with a fret written in the first column
C8_Witness ==
    /\ pc = "assign"
    /\ k = 2
    /\ Len(processed_notes) = 3
    /\ Cardinality(Fretted(1)) = 1
    /\ Fretted(2) = {}

(* C9: under the standard tuning a semitone value v gets a string/fret     *)
(* pair exactly when 39.5 <= v <= 88.5; 39.5 is E fret 0, 88.5 is e fret   *)
(* 24.                                                                     *)
C9_PlayableRange ==
    (m_pc = "output" /\ m_tuning = guitar_tuning) =>
        /\ m_result.best_string # None <=> (158 <= m_note /\ m_note <= 354)
        /\ m_note = 158 => (m_result.best_string = "E" /\ m_result.min_fret = 0)
        /\ m_note = 354 => (m_result.best_string = "e" /\ m_result.min_fret = 24)

\* the upper end of the range, assigned to e fret 24
C9_Witness ==
    /\ m_pc = "output"
    /\ m_tuning = guitar_tuning
    /\ m_note = 354
    /\ m_result.best_string = "e"

(* C10: once a request with an allowed file has been answered, the saved   *)
(* file is no longer in the upload folder.                                 *)
C10_FileRemoved ==
    (pc = "responded" /\ req_name # <<>> /\ allowed_file(req_name))
        => req_name \notin uploads

====
